---- MODULE Spec2Model ----
(***************************************************************************)
(* A model of the risc0 zkVM host-side Prover (risc0/zkvm/src/prove/mod.rs):*)
(* the ProverOpts builder, Prover construction, add_input_*, run_with_hal   *)
(* in its direct and preflight scheduling paths, and the syscall dispatch   *)
(* of ProverImpl::on_txrx with the handlers defined in that file.           *)
(***************************************************************************)
EXTENDS Integers, Sequences, FiniteSets, TLC

(***************************************************************************)
(* Bounds of the model.                                                     *)
(***************************************************************************)
\* number of ProverOpts builder calls made before the Prover is constructed
MaxOptCalls == 2
\* number of run_with_hal invocations on the Prover
MaxRuns == 2
\* the same, where the guest makes every kind of host call (SpecSys)
MaxSysRuns == 1
\* number of add_input_* calls that add bytes to ProverImpl.input
MaxInputCalls == 1
\* number of cycles the guest program needs to reach its halt
GuestLen == 2
\* number of memory image cells allocated for the Provers of SpecTwo
MaxImages == 2
\* number of run_with_hal invocations on each Prover of SpecTwo
MaxTwoRuns == 2
\* number of key-value pairs passed to MetaData::compatible
MaxValues == 2
\* number of bytes a value wrapped in an Envelope holds
MaxBody == 1

(***************************************************************************)
(* Program constants.                                                       *)
(***************************************************************************)
DEFAULT_SEGMENT_LIMIT_PO2 == 23
WORD_SIZE == 4
STDIN == 0
STDOUT == 1
STDERR == 2
JOURNAL == 3
\* program.entry of the loaded guest, in units of guest steps
EntryPc == 0

(***************************************************************************)
(* Bytes, words and text.                                                   *)
(***************************************************************************)
\* a u32 kept in two 16-bit halves, so that u32::MAX and `as u32` keep their
\* width
U32(n) == [hi |-> (n \div 65536) % 65536, lo |-> n % 65536]
U32_MAX == [hi |-> 65535, lo |-> 65535]

\* bytemuck::cast_slice of one u32 word to its four little-endian bytes
WordBytes(w) ==
    << w % 256, (w \div 256) % 256, (w \div 65536) % 256, (w \div 16777216) % 256 >>

RECURSIVE cast_slice(_)
cast_slice(words) ==
    IF words = << >> THEN << >>
    ELSE WordBytes(Head(words)) \o cast_slice(Tail(words))

\* std::str::from_utf8 succeeds: over the byte values used here (ASCII and
\* 0xFF) a buffer is valid UTF-8 exactly when it holds no byte above 0x7F
from_utf8_ok(bytes) == \A i \in 1..Len(bytes) : bytes[i] < 128

Min(a, b) == IF a < b THEN a ELSE b

RECURSIVE Pow2(_)
Pow2(n) == IF n = 0 THEN 1 ELSE 2 * Pow2(n - 1)

\* the empty HashMap
EmptyMap == << >>

\* HashMap::insert: the entry for k is added or replaced
MapInsert(m, k, v) == [x \in (DOMAIN m) \cup {k} |-> IF x = k THEN v ELSE m[x]]

(***************************************************************************)
(* Syscall names.  A name is the text "risc0_zkvm_platform::syscall::nr::"  *)
(* repeated pfx times, followed by base.                                    *)
(***************************************************************************)
Name(p, b) == [pfx |-> p, base |-> b]
\* SyscallName::as_str of the names declared in risc0_zkvm_platform
SYS_CYCLE_COUNT == Name(1, "SYS_CYCLE_COUNT")
SYS_GETENV == Name(1, "SYS_GETENV")
SYS_LOG == Name(1, "SYS_LOG")
SYS_PANIC == Name(1, "SYS_PANIC")
SYS_READ == Name(1, "SYS_READ")
SYS_READ_AVAIL == Name(1, "SYS_READ_AVAIL")
SYS_WRITE == Name(1, "SYS_WRITE")
SYS_RANDOM == Name(1, "SYS_RANDOM")

\* strip_prefix removing every leading occurrence of the prefix
strip_prefix_all(name) == Name(0, name.base)

\* str::strip_prefix("risc0_zkvm_platform::syscall::nr::").unwrap_or(syscall):
\* one leading occurrence of the prefix is removed, when there is one
strip_prefix(name) ==
    IF name.pfx > 0 THEN Name(name.pfx - 1, name.base) ELSE name

(***************************************************************************)
(* Readers, writers, PosixIo and syscall handlers.                          *)
(***************************************************************************)
Reader(k, b) == [kind |-> k, bytes |-> b]
NewPosixIo == [read_fds |-> EmptyMap, write_fds |-> EmptyMap]

\* a boxed Syscall implementation: the kind of handler and what it owns
Handler(k, i, e) == [kind |-> k, io |-> i, env |-> e]
UnknownSyscall == Handler("UnknownSyscall", NewPosixIo, EmptyMap)
DefaultSyscall == Handler("DefaultSyscall", NewPosixIo, EmptyMap)
UserSyscall == Handler("User", NewPosixIo, EmptyMap)
UserUnknown == Handler("UserUnknown", NewPosixIo, EmptyMap)
PosixIoSyscall(i) == Handler("PosixIo", i, EmptyMap)
Getenv(e) == Handler("Getenv", NewPosixIo, e)

(***************************************************************************)
(* ProverOpts and its builder.                                              *)
(***************************************************************************)
without_defaults ==
    [ io |-> NewPosixIo,
      skip_seal |-> FALSE,
      skip_verify |-> FALSE,
      syscall_handlers |-> EmptyMap,
      env_vars |-> EmptyMap,
      trace_callback |-> "none",
      preflight |-> FALSE,
      unknown_syscall_handler |-> UnknownSyscall,
      finalized |-> FALSE,
      segment_limit_po2 |-> DEFAULT_SEGMENT_LIMIT_PO2 ]

with_segment_limit_po2(o, po2) == [o EXCEPT !.segment_limit_po2 = po2]
with_skip_seal(o, b) == [o EXCEPT !.skip_seal = b]
with_skip_verify(o, b) == [o EXCEPT !.skip_verify = b]
with_preflight(o, b) == [o EXCEPT !.preflight = b]

with_syscall(o, syscall, handler) ==
    [o EXCEPT !.syscall_handlers = MapInsert(@, syscall, handler)]

with_unknown_syscall_handler(o, handler) ==
    [o EXCEPT !.unknown_syscall_handler = handler]

\* the assertion of with_trace_callback never failing
DuplicateTraceCallback_unchecked(o) == FALSE

\* with_trace_callback: assert!(!self.trace_callback.is_some(), ..) fails
DuplicateTraceCallback(o) == o.trace_callback # "none"

\* with_trace_callback past its assertion: Some(Box::new(callback))
with_trace_callback(o, callback) == [o EXCEPT !.trace_callback = callback]

with_read_fd(o, fd, reader) ==
    [o EXCEPT !.io.read_fds = MapInsert(@, fd, reader)]

with_write_fd(o, fd, writer) ==
    [o EXCEPT !.io.write_fds = MapInsert(@, fd, writer)]

with_stdin(o, reader) == with_read_fd(o, STDIN, reader)

with_env_var(o, name, val) ==
    [o EXCEPT !.env_vars = MapInsert(@, name, val)]

\* impl Default for ProverOpts; envp is whether RISC0_EXPERIMENTAL_PREFLIGHT
\* is set in the host environment
DefaultOpts(envp) ==
    with_syscall(
      with_syscall(
        with_syscall(
          with_write_fd(
            with_write_fd(
              with_read_fd(
                with_preflight(without_defaults, envp),
                STDIN, Reader("stdin", << >>)),
              STDOUT, "stdout"),
            STDERR, "stderr"),
          SYS_PANIC, DefaultSyscall),
        SYS_LOG, DefaultSyscall),
      SYS_CYCLE_COUNT, DefaultSyscall)

\* std::mem::take(&mut opts): the value left behind is Default::default()
TakenOpts(envp) == DefaultOpts(envp)

\* ProverOpts::finalize
finalize(o) ==
    IF o.finalized THEN o
    ELSE LET io == o.io
             getenv == Getenv(o.env_vars)
             taken == [o EXCEPT !.finalized = TRUE,
                                !.io = NewPosixIo,
                                !.env_vars = EmptyMap]
         IN with_syscall(
              with_syscall(
                with_syscall(
                  with_syscall(taken, SYS_READ, PosixIoSyscall(io)),
                  SYS_READ_AVAIL, PosixIoSyscall(io)),
                SYS_WRITE, PosixIoSyscall(io)),
              SYS_GETENV, getenv)

(***************************************************************************)
(* Syscall handlers.  A guest call is a record                              *)
(*   [name, msg, tg, fd, data]                                              *)
(* name: the syscall name; msg: the guest region named by registers A3/A4;  *)
(* tg: the to_guest buffer in its byte view (4 bytes per word); fd, data:   *)
(* descriptor and bytes of a posix write.  ext is what the host side        *)
(* outside this file answers ("Ok" or "Err"): a handler supplied by the     *)
(* user, or getrandom.                                                      *)
(* A handler's outcome is a record                                          *)
(*   [ret, a0, a1, tg, wfd, wbytes, err, msg]                               *)
(* ret: "Ok", "Err" or "Panic"; (a0, a1): the pair returned to the guest;   *)
(* tg: the to_guest buffer afterwards; wfd, wbytes: the writer written to   *)
(* ("none" if none) and the bytes; err, msg: the error and its message.     *)
(***************************************************************************)
Outcome(r, x, y, t, w, wb, e, m) ==
    [ret |-> r, a0 |-> x, a1 |-> y, tg |-> t, wfd |-> w, wbytes |-> wb,
     err |-> e, msg |-> m]
OkOut(x, y, t) == Outcome("Ok", x, y, t, "none", << >>, "none", << >>)
ErrOut(t, e, m) == Outcome("Err", U32(0), U32(0), t, "none", << >>, e, m)
PanicOut(t, e) == Outcome("Panic", U32(0), U32(0), t, "none", << >>, e, << >>)

\* UnknownSyscall that ignores the call and reports success
UnknownSyscall_ignoring(call) == OkOut(U32(0), U32(0), call.tg)

\* impl Syscall for UnknownSyscall
UnknownSyscall_syscall(call) == PanicOut(call.tg, "Unknown syscall")

\* impl Syscall for DefaultSyscall; cycle is ctx.get_cycle()
DefaultSyscall_syscall(call, cycle) ==
    IF call.name = SYS_PANIC \/ call.name = SYS_LOG
    THEN IF ~from_utf8_ok(call.msg) THEN ErrOut(call.tg, "Utf8Error", << >>)
         ELSE IF call.name = SYS_PANIC
              THEN ErrOut(call.tg, "Guest panicked", call.msg)
              ELSE OkOut(U32(0), U32(0), call.tg)
    ELSE IF call.name = SYS_CYCLE_COUNT
         THEN OkOut(U32(cycle), U32(0), call.tg)
         ELSE ErrOut(call.tg, "Unknown syscall", << >>)

\* Getenv returning the number of bytes copied instead of the value's length
Getenv_syscall_copied(env, call) ==
    IF ~from_utf8_ok(call.msg) THEN ErrOut(call.tg, "Utf8Error", << >>)
    ELSE IF call.msg \notin DOMAIN env
         THEN OkOut(U32_MAX, U32(0), call.tg)
         ELSE LET val == env[call.msg]
                  nbytes == Min((Len(call.tg) \div WORD_SIZE) * WORD_SIZE, Len(val))
              IN OkOut(U32(nbytes), U32(0),
                       [i \in 1..Len(call.tg) |->
                           IF i <= nbytes THEN val[i] ELSE call.tg[i]])

\* impl Syscall for Getenv
Getenv_syscall(env, call) ==
    IF ~from_utf8_ok(call.msg) THEN ErrOut(call.tg, "Utf8Error", << >>)
    ELSE IF call.msg \notin DOMAIN env
         THEN OkOut(U32_MAX, U32(0), call.tg)
         ELSE LET val == env[call.msg]
                  to_guest_len == Len(call.tg) \div WORD_SIZE
                  nbytes == Min(to_guest_len * WORD_SIZE, Len(val))
                  to_guest_u8s ==
                      [i \in 1..Len(call.tg) |->
                          IF i <= nbytes THEN val[i] ELSE call.tg[i]]
              IN OkOut(U32(Len(val)), U32(0), to_guest_u8s)

\* impl Syscall for PosixIo (prove/io.rs): a write goes to the writer
\* registered for the descriptor; reads are not detailed
PosixIo_syscall(io, call) ==
    IF call.name = SYS_WRITE
    THEN IF call.fd \in DOMAIN io.write_fds
         THEN Outcome("Ok", U32(0), U32(0), call.tg, io.write_fds[call.fd],
                      call.data, "none", << >>)
         ELSE ErrOut(call.tg, "Bad write file descriptor", << >>)
    ELSE OkOut(U32(0), U32(0), call.tg)

\* a handler supplied by the user returns what the user wrote it to return
User_syscall(call, ext) ==
    IF ext = "Ok" THEN OkOut(U32(0), U32(0), call.tg)
    ELSE ErrOut(call.tg, "user error", << >>)

\* the "SYS_RANDOM" arm of on_txrx: the destination is filled from getrandom
Random_syscall(call, ext) ==
    IF ext = "Ok"
    THEN OkOut(U32(0), U32(0), [i \in 1..Len(call.tg) |-> 99])
    ELSE ErrOut(call.tg, "getrandom", << >>)

\* Box<dyn Syscall>::syscall: the call goes to the implementation boxed
Syscall_syscall(h, call, cycle, ext) ==
    CASE h.kind = "UnknownSyscall" -> UnknownSyscall_syscall(call)
      [] h.kind = "DefaultSyscall" -> DefaultSyscall_syscall(call, cycle)
      [] h.kind = "Getenv" -> Getenv_syscall(h.env, call)
      [] h.kind = "PosixIo" -> PosixIo_syscall(h.io, call)
      [] OTHER -> User_syscall(call, ext)

\* the closure a user registered as trace callback, called with an event
Callback_call(cb) ==
    IF cb = "cb2" THEN ErrOut(<< >>, "callback error", << >>)
    ELSE OkOut(U32(0), U32(0), << >>)

\* on_trace that reports success whatever the callback returned
on_trace_swallowing(o) == OkOut(U32(0), U32(0), << >>)

\* ProverImpl::on_trace: the callback's result if one is registered, else Ok
on_trace(o) ==
    IF o.trace_callback # "none" THEN Callback_call(o.trace_callback)
    ELSE OkOut(U32(0), U32(0), << >>)

\* ProverImpl::on_txrx: the handlers that execute for one guest call, in
\* order, each a pair <<which, outcome>>; which is "registered", "builtin"
\* or "fallback".  The outcome returned to the executor is that of the last.
on_txrx(o, call, cycle, ext) ==
    IF call.name \in DOMAIN o.syscall_handlers
    THEN << << "registered", o.syscall_handlers[call.name].kind,
               Syscall_syscall(o.syscall_handlers[call.name], call, cycle, ext) >> >>
    ELSE IF strip_prefix(call.name) = Name(0, "SYS_RANDOM")
         THEN << << "builtin", "SYS_RANDOM", Random_syscall(call, ext) >> >>
         ELSE << << "fallback", o.unknown_syscall_handler.kind,
                    Syscall_syscall(o.unknown_syscall_handler, call, cycle, ext) >> >>


(***************************************************************************)
(* State.                                                                   *)
(***************************************************************************)
VARIABLES
    envPreflight,       \* RISC0_EXPERIMENTAL_PREFLIGHT is set in the host environment
    insecure,           \* what receipt::insecure_skip_seal() returns
    stage,              \* "opts": building ProverOpts; "idle": Prover built, no run
                        \* in progress; "exec": inside executor.run() of a run;
                        \* "dead": a builder call panicked
    optCalls,           \* builder calls made so far
    opts,               \* the ProverOpts being built, then ProverImpl.opts
    input,              \* ProverImpl.input
    journal,            \* ProverImpl.journal.buf
    opts_finalized,     \* ProverImpl.opts_finalized
    image,              \* Prover.image: the guest state the memory image holds
    pc,                 \* Prover.pc
    preflight_segments, \* Prover.preflight_segments
    cycles,             \* Prover.cycles
    exit_code,          \* Prover.exit_code
    frame,              \* locals of the run_with_hal invocation in progress
    runs,               \* run_with_hal invocations made so far
    result,             \* what the latest run_with_hal invocation returned
    lastCall,           \* the guest call on_txrx dispatched last, with what ran
    hist,               \* history kept for the properties
    heap,               \* the Rc<RefCell<MemoryImage>> cells allocated (SpecTwo)
    provers,            \* the Provers built side by side (SpecTwo)
    metadata,           \* the MetaData at hand: its HashMap (SpecMeta, SpecEnv)
    values,             \* the key-value slice the caller passes to compatible
    envelope,           \* the Envelope at hand, if any (SpecEnv)
    ret                 \* the latest call into risc0-common and what it returned

proverVars == << envPreflight, insecure, stage, optCalls, opts, input, journal,
                 opts_finalized, image, pc, preflight_segments, cycles,
                 exit_code, frame, runs, result, lastCall, hist >>

commonVars == << metadata, values, envelope, ret >>

peers == << heap, provers, commonVars >>

vars == << proverVars, peers >>

env == << envPreflight, insecure >>
proverState == << image, pc, cycles, exit_code >>

\* MemoryImage::get_root: the commitment to the guest state the image holds
get_root(img) == 1000 + img

\* Option::None for Prover.preflight_segments
NoSegments == [some |-> FALSE, pc |-> 0, image |-> 0, done |-> FALSE,
               opts |-> without_defaults]

NoFrame == [skip_seal |-> FALSE, segment_limit_po2 |-> 0, image_id |-> 0,
            xpc |-> 0, xcycles |-> 0]

NoResult == [kind |-> "none", path |-> "none", journal |-> << >>,
             seal |-> << >>, verify |-> "none", steps |-> << >>,
             why |-> "none", code |-> 0, against |-> 0]

Receipt(path, j, sl, v, st) ==
    [kind |-> "Ok", path |-> path, journal |-> j, seal |-> sl,
     verify |-> v, steps |-> st, why |-> "none", code |-> 0, against |-> 0]

\* the Receipt of a run whose segment ended with exit condition code c
\* (0 halted, 1 paused, 2 split); a failed run carries no code
WithCode(r, c) == IF r.kind = "Ok" THEN [r EXCEPT !.code = c] ELSE r
Failed(kind, path, why) == [NoResult EXCEPT !.kind = kind, !.path = path, !.why = why]

NoHist == [finalizeCount |-> 0, merged |-> << >>, configured |-> without_defaults,
           startPc |-> 0, startRoot |-> 0, endPc |-> 0, endRoot |-> 0,
           ended |-> FALSE, started |-> FALSE, written |-> << >>,
           adds |-> 0, lateAdd |-> FALSE, linked |-> FALSE, prevPc |-> 0,
           prevRoot |-> 0, haltedAt |-> 0, total |-> 0, returned |-> << >>]

(***************************************************************************)
(* risc0-common: Hashes, MetaData, BodyType and Envelope.  A HashMap is a   *)
(* function from the keys present to their values.                          *)
(***************************************************************************)
ZKVM_PLATFORM_VER == "ZKVM_PLATFORM_VER"
ZKVM_CIRCUIT_VER == "ZKVM_CIRCUIT_VER"
ZKVM_PROVER_HASH == "ZKVM_PROVER_HASH"
REQUIRED_KEYS == << ZKVM_PLATFORM_VER, ZKVM_CIRCUIT_VER, ZKVM_PROVER_HASH >>
ZKVM_HASH_SHA256 == "sha256"
ZKVM_HASH_POSEIDON == "poseidon"
\* env!("CARGO_PKG_VERSION"): the crate version, fixed at compile time
CARGO_PKG_VERSION == "CARGO_PKG_VERSION"

\* enum Hashes
Hashes == {"Sha256", "Poseidon"}

\* a call into the crate and what it returned: kind is "Ok" or the
\* CommonErr variant, msg the String the error carries, flag a returned
\* bool, val a returned Hashes, data a decoded body; arg is the &str
\* argument, ty the type T of the conversion, tag the body_type of the
\* Envelope passed, of the Hashes a string was made from, and decoded
\* tells whether bincode::deserialize was called
Ret(op, kind, msg, arg, ty, tag) ==
    [op |-> op, kind |-> kind, msg |-> msg, arg |-> arg, ty |-> ty,
     tag |-> tag, flag |-> FALSE, val |-> "none", of |-> "none",
     data |-> << >>, decoded |-> FALSE]
NoRet == Ret("none", "none", "", "", 0, 0)

\* HashMap::remove
MapRemove(m, k) == [x \in (DOMAIN m) \ {k} |-> m[x]]

\* <Hashes as FromStr>::from_str
Hashes_from_str(s) ==
    IF s = ZKVM_HASH_SHA256 THEN [kind |-> "Ok", val |-> "Sha256", msg |-> ""]
    ELSE IF s = ZKVM_HASH_POSEIDON
         THEN [kind |-> "Ok", val |-> "Poseidon", msg |-> ""]
         ELSE [kind |-> "InvalidHash", val |-> "none", msg |-> s]

\* to_string with the two identifiers exchanged
Hashes_to_string_swapped(h) ==
    IF h = "Sha256" THEN ZKVM_HASH_POSEIDON ELSE ZKVM_HASH_SHA256

\* <Hashes as ToString>::to_string
Hashes_to_string(h) ==
    IF h = "Sha256" THEN ZKVM_HASH_SHA256 ELSE ZKVM_HASH_POSEIDON

\* MetaData::from
MetaData_from(hash) ==
    LET inner1 == MapInsert(EmptyMap, ZKVM_CIRCUIT_VER, CARGO_PKG_VERSION)
        inner2 == MapInsert(inner1, ZKVM_PLATFORM_VER, CARGO_PKG_VERSION)
    IN MapInsert(inner2, ZKVM_PROVER_HASH, Hashes_to_string(hash))

\* MetaData::valid: the loop over REQUIRED_KEYS from the i-th key on
RECURSIVE valid_from(_, _)
valid_from(md, i) ==
    IF i > Len(REQUIRED_KEYS) THEN TRUE
    ELSE IF REQUIRED_KEYS[i] \notin DOMAIN md THEN FALSE
         ELSE valid_from(md, i + 1)

\* valid looking at the first required key only
valid_first_key(md) == REQUIRED_KEYS[1] \in DOMAIN md

\* MetaData::valid
valid(md) == valid_from(md, 1)

\* MetaData::compatible: the loop over values from the i-th pair on
RECURSIVE compatible_from(_, _, _)
compatible_from(md, vals, i) ==
    IF i > Len(vals) THEN TRUE
    ELSE LET key == vals[i][1]
             val == vals[i][2]
         IN IF key \in DOMAIN md
            THEN IF md[key] # val THEN FALSE
                 ELSE compatible_from(md, vals, i + 1)
            ELSE FALSE

\* compatible looking at the keys only
compatible_keys_only(md, vals) ==
    \A i \in 1..Len(vals) : vals[i][1] \in DOMAIN md

\* MetaData::compatible
compatible(md, vals) == compatible_from(md, vals, 1)

\* <MetaData as FromStr>::from_str
MetaData_from_str(s) ==
    LET hash == Hashes_from_str(s)
    IN IF hash.kind # "Ok"
       THEN [kind |-> hash.kind, msg |-> hash.msg, md |-> EmptyMap]
       ELSE [kind |-> "Ok", msg |-> "", md |-> MetaData_from(hash.val)]

\* enum BodyType, by the position of the variant, and its Display
BodyTypeNames == << "Segment", "Session", "MemoryImage", "SegmentReceipt",
                    "SessionReceipt" >>
BodyType == 1..Len(BodyTypeNames)
BodyType_to_string(b) == BodyTypeNames[b]

\* struct Envelope, and no Envelope at hand
Envelope(md, bt, body) == [some |-> TRUE, metadata |-> md, body_type |-> bt,
                           body |-> body]
NoEnvelope == [some |-> FALSE, metadata |-> EmptyMap, body_type |-> 0,
               body |-> << >>]

\* a value of one of the five zkvm types: the type and the bytes it holds
Value(t, d) == [type |-> t, data |-> d]

\* bincode::serialize of such a value: the length of the byte vector, then
\* the bytes
serialize(v) == << Len(v.data) >> \o v.data

\* bincode::deserialize::<T>: fails unless the body is a length followed by
\* that many bytes
deserialize(t, body) ==
    IF Len(body) >= 1 /\ body[1] = Len(body) - 1
    THEN [kind |-> "Ok", data |-> Tail(body)]
    ELSE [kind |-> "BincodeErr", data |-> << >>]

\* <Envelope as TryFromHash<T>>::try_from_hash(value, hash), T = value.type
try_from_hash(value, hash) ==
    LET md == MetaData_from_str(hash)
    IN IF md.kind # "Ok"
       THEN [kind |-> md.kind, msg |-> md.msg, envelope |-> NoEnvelope]
       ELSE [kind |-> "Ok", msg |-> "",
             envelope |-> Envelope(md.md, value.type, serialize(value))]

\* try_from without the test of body_type
try_from_untagged(t, e) ==
    LET res == deserialize(t, e.body)
    IN [kind |-> res.kind, msg |-> "", data |-> res.data, decoded |-> TRUE]

\* <T as TryFrom<Envelope>>::try_from(value), T = t
try_from(t, e) ==
    IF e.body_type # t
    THEN [kind |-> "InvalidDataType", msg |-> BodyType_to_string(e.body_type),
          data |-> << >>, decoded |-> FALSE]
    ELSE LET res == deserialize(t, e.body)
         IN [kind |-> res.kind, msg |-> "", data |-> res.data,
             decoded |-> TRUE]

\* the Provers of SpecTwo, and one not built yet
ProverIds == {1, 2}
NoProver == [built |-> FALSE, image |-> 0, pc |-> 0, receipt |-> << >>,
             runs |-> 0, opts_finalized |-> FALSE]

Init ==
    /\ envPreflight \in BOOLEAN
    /\ insecure \in BOOLEAN
    /\ stage = "opts"
    /\ optCalls = 0
    /\ opts \in {without_defaults, DefaultOpts(envPreflight)}
    /\ input = << >>
    /\ journal = << >>
    /\ opts_finalized = FALSE
    /\ image = EntryPc
    /\ pc = EntryPc
    /\ preflight_segments = NoSegments
    /\ cycles = 0
    /\ exit_code = 0
    /\ frame = NoFrame
    /\ runs = 0
    /\ result = NoResult
    /\ lastCall = << >>
    /\ hist = NoHist
    /\ heap = << >>
    /\ provers = [p \in ProverIds |-> NoProver]
    /\ metadata = EmptyMap
    /\ values = << >>
    /\ envelope = NoEnvelope
    /\ ret = NoRet

(***************************************************************************)
(* The ProverOpts builder.                                                  *)
(***************************************************************************)
\* names a user registers handlers under
UserNames == {SYS_GETENV, SYS_PANIC, Name(0, "SYS_RANDOM"), Name(0, "CUSTOM")}

FOO == << 70, 79, 79 >>
BAR == << 66, 65, 82 >>
EnvVals == { << 98, 97, 114 >>, << 98, 97, 114, 98, 97 >> }

Build(o) ==
    /\ stage = "opts"
    /\ optCalls < MaxOptCalls
    /\ optCalls' = optCalls + 1
    /\ opts' = o
    /\ UNCHANGED << env, peers, stage, input, journal, opts_finalized, proverState,
                    preflight_segments, frame, runs, result, lastCall, hist >>

OptSkipSeal == \E b \in BOOLEAN : Build(with_skip_seal(opts, b))
OptSkipVerify == \E b \in BOOLEAN : Build(with_skip_verify(opts, b))
OptPreflight == \E b \in BOOLEAN : Build(with_preflight(opts, b))
OptSegmentLimitPo2 == \E p \in {0} : Build(with_segment_limit_po2(opts, p))
OptSyscall == \E n \in UserNames : Build(with_syscall(opts, n, UserSyscall))
OptUnknownSyscallHandler == Build(with_unknown_syscall_handler(opts, UserUnknown))
OptEnvVar == \E v \in EnvVals : Build(with_env_var(opts, FOO, v))
\* the trace callbacks a user registers: cb1 returns Ok(()) for every event,
\* cb2 returns an error
TraceCallbacks == {"cb1", "cb2"}

\* ProverOpts::with_trace_callback: on a configuration that holds a callback
\* the call panics, and the configuration, moved into the call, is gone
OptTraceCallback ==
    \E cb \in TraceCallbacks :
        IF DuplicateTraceCallback(opts)
        THEN /\ stage = "opts"
             /\ optCalls < MaxOptCalls
             /\ optCalls' = optCalls + 1
             /\ stage' = "dead"
             /\ result' = Failed("Panic", "none", "Duplicate trace callback")
             /\ UNCHANGED << env, peers, opts, input, journal, opts_finalized,
                             proverState, preflight_segments, frame, runs,
                             lastCall, hist >>
        ELSE Build(with_trace_callback(opts, cb))

\* the user registers a writer of their own for the journal descriptor
OptWriteFd == Build(with_write_fd(opts, JOURNAL, "user"))

\* ProverImpl::new that leaves a writer already registered for the journal
\* descriptor in place
ProverImpl_new_keeping(o) ==
    IF JOURNAL \in DOMAIN o.io.write_fds THEN o
    ELSE with_write_fd(o, JOURNAL, "journal")

\* ProverImpl::new
ProverImpl_new(o) == with_write_fd(o, JOURNAL, "journal")

\* Prover::new_with_opts (and Prover::new, with the default options)
new_with_opts ==
    /\ stage = "opts"
    /\ stage' = "idle"
    /\ optCalls' = 0
    /\ opts' = ProverImpl_new(opts)
    /\ input' = << >>
    /\ journal' = << >>
    /\ opts_finalized' = FALSE
    /\ image' = EntryPc
    /\ pc' = EntryPc
    /\ cycles' = 0
    /\ preflight_segments' = NoSegments
    /\ exit_code' = 0
    /\ hist' = [hist EXCEPT !.configured = opts]
    /\ UNCHANGED << env, peers, frame, runs, result, lastCall >>

(***************************************************************************)
(* Raw input.                                                               *)
(***************************************************************************)
add_input_u8_slice ==
    \E slice \in { << >>, << 7 >> } :
        /\ stage = "idle"
        /\ slice # << >> => hist.adds < MaxInputCalls
        /\ input' = input \o slice
        /\ hist' = [hist EXCEPT !.adds = @ + (IF slice # << >> THEN 1 ELSE 0),
                                !.lateAdd = @ \/ (slice # << >> /\ runs >= 1)]
        /\ UNCHANGED << env, peers, stage, optCalls, opts, journal, opts_finalized,
                        proverState, preflight_segments, frame, runs, result,
                        lastCall >>

add_input_u32_slice ==
    \E slice \in { << >>, << 258 >> } :
        /\ stage = "idle"
        /\ slice # << >> => hist.adds < MaxInputCalls
        /\ input' = input \o cast_slice(slice)
        /\ hist' = [hist EXCEPT !.adds = @ + (IF slice # << >> THEN 1 ELSE 0),
                                !.lateAdd = @ \/ (slice # << >> /\ runs >= 1)]
        /\ UNCHANGED << env, peers, stage, optCalls, opts, journal, opts_finalized,
                        proverState, preflight_segments, frame, runs, result,
                        lastCall >>


(***************************************************************************)
(* Prover::run_with_hal.                                                    *)
(***************************************************************************)
\* PreludeOpts with the merge and finalize made on every run
PreludeOpts_everyRun ==
    finalize(IF input # << >>
             THEN with_stdin(opts, Reader("cursor", input))
             ELSE opts)

\* lines 628-636: the options after the first-run merge and finalize
PreludeOpts ==
    IF ~opts_finalized
    THEN finalize(IF input # << >>
                  THEN with_stdin(opts, Reader("cursor", input))
                  ELSE opts)
    ELSE opts

\* PreludeInput with the buffer left as it is after the merge
PreludeInput_kept == input

\* line 633: take(&mut self.inner.input) on the first run
PreludeInput == IF ~opts_finalized THEN << >> ELSE input

\* LateInput with the assertion passing a buffer of a single byte
LateInput_long_only == opts_finalized /\ Len(input) > 1

\* LateInput with the assertion of line 640 left out
LateInput_unchecked == FALSE

\* line 640: the assertion of a continuation fails
LateInput == opts_finalized /\ input # << >>

\* what the prelude leaves in hist
PreludeHist ==
    IF ~opts_finalized
    THEN [hist EXCEPT !.finalizeCount = @ + (IF opts.finalized THEN 0 ELSE 1),
                      !.merged = input]
    ELSE hist

\* a run_with_hal invocation that fails the assertion of line 640
RunLateInput(maxRuns) ==
    /\ stage = "idle"
    /\ runs < maxRuns
    /\ LateInput
    /\ runs' = runs + 1
    /\ result' = Failed("Panic", "none", "Input may not be added")
    /\ lastCall' = << >>
    /\ UNCHANGED << env, peers, stage, optCalls, opts, input, journal, opts_finalized,
                    proverState, preflight_segments, frame, hist >>

\* a run_with_hal invocation on the direct path, up to the executor's start
\* (lines 628-674)
RunDirectBegin(maxRuns) ==
    /\ stage = "idle"
    /\ runs < maxRuns
    /\ ~LateInput
    /\ ~PreludeOpts.preflight
    /\ runs' = runs + 1
    /\ opts' = PreludeOpts
    /\ input' = PreludeInput
    /\ opts_finalized' = TRUE
    /\ frame' = [skip_seal |-> PreludeOpts.skip_seal \/ insecure,
                 segment_limit_po2 |-> PreludeOpts.segment_limit_po2,
                 image_id |-> get_root(image),
                 xpc |-> pc,
                 xcycles |-> 0]
    /\ stage' = "exec"
    /\ result' = NoResult
    /\ lastCall' = << >>
    /\ hist' = [PreludeHist EXCEPT !.started = TRUE, !.startPc = pc,
                                   !.startRoot = get_root(image),
                                   !.linked = (hist.ended /\ result.kind = "Ok"),
                                   !.prevPc = hist.endPc,
                                   !.prevRoot = hist.endRoot]
    /\ UNCHANGED << env, peers, optCalls, journal, proverState, preflight_segments >>

\* preflight::exec::ExecState::new(pc, image, opts).segmentize()
ExecState_new(p, img, o) ==
    [some |-> TRUE, pc |-> p, image |-> img, done |-> FALSE, opts |-> o]

\* get_or_insert_with that builds the value anew on every call
get_or_insert_with_always(option, new) == new

\* Option::get_or_insert_with (line 646): the value held, or else new
get_or_insert_with(option, new) == IF option.some THEN option ELSE new

\* the steps with the finalize moved before the accumulation
ProveSteps_early_finalize ==
    << "commit code", "commit data", "finalize", "accumulate", "commit accum" >>

\* the steps risc0_zkp's prover takes for a seal (lines 688-711)
ProveSteps ==
    << "commit code", "commit data", "accumulate", "commit accum", "finalize" >>

\* the exit condition code of a preflight::Segment of n cycles ending at
\* endPc under a limit of limit cycles
SegCode(endPc, n, limit) ==
    IF endPc = GuestLen THEN 0 ELSE IF n = limit THEN 2 ELSE 1

\* a run_with_hal invocation on the preflight path (lines 628-665); seg is
\* what segments.next() yields: "None", "Err" or "Ok", n the cycles of the
\* segment, wr whether the guest writes a journal byte in it, proveOk
\* whether prove_with_hal succeeds
RunPreflight(maxRuns) ==
    \E seg \in {"None", "Err", "Ok"}, n \in 1..GuestLen, wr \in BOOLEAN,
       proveOk \in BOOLEAN :
      LET o1 == PreludeOpts
          skip_seal == o1.skip_seal \/ insecure
          created == ~preflight_segments.some
          segments == get_or_insert_with(preflight_segments,
                                         ExecState_new(pc, image, o1))
          o2 == IF created THEN TakenOpts(envPreflight) ELSE o1
          limit == Pow2(segments.opts.segment_limit_po2)
          endPc == segments.pc + n
          written == IF wr THEN << Len(hist.written) + 1 >> ELSE << >>
          h1 == [PreludeHist EXCEPT !.started = TRUE, !.startPc = segments.pc,
                                    !.startRoot = get_root(segments.image),
                                    !.linked = (hist.ended /\ result.kind = "Ok"),
                                    !.prevPc = hist.endPc,
                                    !.prevRoot = hist.endRoot]
      IN
      /\ stage = "idle"
      /\ runs < maxRuns
      /\ ~LateInput
      /\ o1.preflight
      /\ runs' = runs + 1
      /\ opts' = o2
      /\ input' = PreludeInput
      /\ opts_finalized' = TRUE
      /\ lastCall' = << >>
      /\ \/ /\ seg = "None"
            /\ segments.done
            /\ n = 1 /\ ~wr /\ proveOk
            /\ preflight_segments' = segments
            /\ result' = Failed("Panic", "preflight", "Ran out of segments")
            /\ hist' = h1
            /\ UNCHANGED journal
         \/ /\ seg = "Err"
            /\ ~segments.done
            /\ n = 1 /\ ~wr /\ proveOk
            /\ preflight_segments' = segments
            /\ result' = Failed("Err", "preflight", "segment")
            /\ hist' = h1
            /\ UNCHANGED journal
         \/ /\ seg = "Ok"
            /\ ~segments.done
            /\ n <= limit
            /\ endPc <= GuestLen
            /\ skip_seal => proveOk
            /\ preflight_segments' =
                   [segments EXCEPT !.pc = endPc, !.image = endPc,
                                    !.done = (endPc = GuestLen)]
            /\ journal' = << >>
            /\ result' =
                   WithCode(
                     IF skip_seal
                     THEN Receipt("preflight", journal \o written, << >>, "none", << >>)
                     ELSE IF proveOk
                          THEN Receipt("preflight", journal \o written,
                                       << get_root(segments.image) >>, "none",
                                       << "prove_with_hal" >>)
                          ELSE Failed("Err", "preflight", "prove_with_hal"),
                     SegCode(endPc, n, limit))
            /\ hist' = [h1 EXCEPT !.written = @ \o written,
                                  !.returned =
                                      IF skip_seal \/ proveOk
                                      THEN @ \o journal \o written ELSE @,
                                  !.ended = TRUE, !.endPc = endPc,
                                  !.endRoot = get_root(endPc),
                                  !.total = @ + n,
                                  !.haltedAt =
                                      IF @ = 0 /\ endPc = GuestLen
                                         /\ (skip_seal \/ proveOk)
                                      THEN runs + 1 ELSE @]
      /\ UNCHANGED << env, peers, stage, optCalls, proverState, frame >>


(***************************************************************************)
(* The executor's run (prove/exec), which calls back into ProverImpl, and   *)
(* the rest of run_with_hal after it.                                       *)
(***************************************************************************)
Call(n, m, t, f, d) ==
    [name |-> n, msg |-> m, tg |-> t, fd |-> f, data |-> d]

\* a to_guest buffer of one word, as the guest passes it
OneWord == << 170, 170, 170, 170 >>

\* a posix write of the next byte to a descriptor
WriteCalls(fds) ==
    {Call(SYS_WRITE, << >>, << >>, fd, << Len(hist.written) + 1 >>) : fd \in fds}

\* the host calls a guest makes in Spec: journal writes, and a call of a name
\* nothing is registered for
LifeCalls ==
    WriteCalls({JOURNAL})
    \cup {Call(Name(0, "CUSTOM"), << >>, << >>, 0, << >>)}

\* the host calls a guest makes in SpecSys
SysCalls ==
    WriteCalls({JOURNAL, STDOUT})
    \cup {Call(SYS_GETENV, k, t, 0, << >>) :
            k \in {FOO, BAR, << 255 >>}, t \in {<< >>, OneWord}}
    \cup {Call(n, m, << >>, 0, << >>) :
            n \in {SYS_PANIC, SYS_LOG}, m \in {<< 104, 105 >>, << 255 >>}}
    \cup {Call(n, << >>, OneWord, 0, << >>) :
            n \in {SYS_RANDOM, Name(0, "SYS_RANDOM"), Name(2, "SYS_RANDOM"),
                   Name(0, "CUSTOM"), SYS_CYCLE_COUNT}}

\* Journal::write that replaces the buffer's contents
Journal_write_overwriting(buf, bytes) == bytes

\* impl Write for Journal: the bytes are appended to the shared buffer
Journal_write(buf, bytes) == buf \o bytes

\* the bytes the handlers of one dispatch wrote to the journal writer
RECURSIVE JournalBytes(_)
JournalBytes(inv) ==
    IF inv = << >> THEN << >>
    ELSE (IF Head(inv)[3].wfd = "journal" THEN Head(inv)[3].wbytes ELSE << >>)
         \o JournalBytes(Tail(inv))

Running ==
    /\ stage = "exec"
    /\ frame.xpc < GuestLen
    /\ frame.xcycles < Pow2(frame.segment_limit_po2)

\* the guest executes an instruction that is no host call
ExecInsn ==
    /\ Running
    /\ frame' = [frame EXCEPT !.xpc = @ + 1, !.xcycles = @ + 1]
    /\ lastCall' = << >>
    /\ UNCHANGED << env, peers, stage, optCalls, opts, input, journal, opts_finalized,
                    proverState, preflight_segments, runs, result, hist >>

\* the guest makes a host call: the executor calls on_txrx; an Err or a
\* panic of the handler ends executor.run() and with it run_with_hal (675)
Dispatch(call, ext) ==
      LET inv == on_txrx(opts, call, frame.xcycles, ext)
          out == inv[Len(inv)][3]
      IN
      /\ Running
      /\ lastCall' = << [call |-> call, invoked |-> inv] >>
      /\ journal' = Journal_write(journal, JournalBytes(inv))
      /\ hist' = [hist EXCEPT !.written = @ \o JournalBytes(inv)]
      /\ IF out.ret = "Ok"
         THEN /\ frame' = [frame EXCEPT !.xpc = @ + 1, !.xcycles = @ + 1]
              /\ UNCHANGED << stage, result >>
         ELSE /\ frame' = NoFrame
              /\ stage' = "idle"
              /\ result' = Failed(out.ret, "direct", out.err)
      /\ UNCHANGED << env, peers, optCalls, opts, input, opts_finalized, proverState,
                      preflight_segments, runs >>

\* the executor reports a TraceEvent of the instruction it executes: it calls
\* on_trace, and an Err ends executor.run() and with it run_with_hal (675)
TraceEvent == Call(Name(0, "TraceEvent"), << >>, << >>, 0, << >>)

ExecTrace ==
      LET out == on_trace(opts)
      IN
      /\ Running
      /\ lastCall' = << [call |-> TraceEvent,
                         invoked |-> << << "trace", opts.trace_callback, out >> >>] >>
      /\ IF out.ret = "Ok"
         THEN /\ frame' = [frame EXCEPT !.xpc = @ + 1, !.xcycles = @ + 1]
              /\ UNCHANGED << stage, result >>
         ELSE /\ frame' = NoFrame
              /\ stage' = "idle"
              /\ result' = Failed(out.ret, "direct", out.err)
      /\ UNCHANGED << env, peers, optCalls, opts, input, journal, opts_finalized,
                      proverState, preflight_segments, runs, hist >>

ExecSyscall == \E call \in LifeCalls, ext \in {"Ok", "Err"} : Dispatch(call, ext)
ExecSyscallSys == \E call \in SysCalls, ext \in {"Ok", "Err"} : Dispatch(call, ext)

\* the executor fails on its own (an illegal instruction, a failing trace
\* callback): executor.run() returns Err
ExecFault ==
    /\ stage = "exec"
    /\ stage' = "idle"
    /\ frame' = NoFrame
    /\ result' = Failed("Err", "direct", "executor")
    /\ lastCall' = << >>
    /\ UNCHANGED << env, peers, optCalls, opts, input, journal, opts_finalized,
                    proverState, preflight_segments, runs, hist >>

\* ShouldVerify with the sense of skip_verify inverted
ShouldVerify_inverted(skip_seal, o) == ~skip_seal /\ o.skip_verify

\* line 718: the receipt is self-checked
ShouldVerify(skip_seal, o) == ~skip_seal /\ ~o.skip_verify

\* the self-check against the root of the image as the segment left it
VerifyImageId_updated(f) == get_root(f.xpc)

\* line 720: receipt.verify_with_hash(hal, &image_id), image_id being the
\* root captured at line 667 before the executor was built
VerifyImageId(f) == f.image_id

\* executor.run() returns (cycles, exit_code, pc) and run_with_hal goes on to
\* its end (lines 675-724); verifyOk is what receipt.verify_with_hash answers
ExecReturn ==
    \E code \in {0, 1, 2}, verifyOk \in BOOLEAN :
      LET seal == IF frame.skip_seal THEN << >> ELSE << frame.image_id >>
          steps == IF frame.skip_seal THEN << >> ELSE ProveSteps
          verifies == ShouldVerify(frame.skip_seal, opts)
      IN
      /\ stage = "exec"
      /\ \/ code = 0 /\ frame.xpc = GuestLen
         \/ code = 1 /\ frame.xpc < GuestLen /\ frame.xcycles >= 1
         \/ /\ code = 2
            /\ frame.xpc < GuestLen
            /\ frame.xcycles = Pow2(frame.segment_limit_po2)
      /\ verifies \/ verifyOk
      /\ cycles' = frame.xcycles
      /\ exit_code' = code
      /\ pc' = frame.xpc
      /\ image' = frame.xpc
      /\ journal' = << >>
      /\ result' = IF verifies /\ ~verifyOk
                   THEN [Failed("Err", "direct", "verify")
                             EXCEPT !.verify = "failed", !.steps = steps,
                                    !.against = VerifyImageId(frame)]
                   ELSE [WithCode(Receipt("direct", journal, seal,
                                          IF verifies THEN "ok" ELSE "none",
                                          steps),
                                  code)
                             EXCEPT !.against = IF verifies
                                                THEN VerifyImageId(frame)
                                                ELSE 0]
      /\ stage' = "idle"
      /\ frame' = NoFrame
      /\ lastCall' = << >>
      /\ hist' = [hist EXCEPT !.ended = TRUE, !.endPc = frame.xpc,
                              !.returned =
                                  IF verifies /\ ~verifyOk
                                  THEN @ ELSE @ \o journal,
                              !.endRoot = get_root(frame.xpc),
                              !.total = @ + frame.xcycles,
                              !.haltedAt =
                                  IF @ = 0 /\ code = 0 /\ (~verifies \/ verifyOk)
                                  THEN runs ELSE @]
      /\ UNCHANGED << env, peers, optCalls, opts, input, opts_finalized,
                      preflight_segments, runs >>

Run == RunLateInput(MaxRuns) \/ RunDirectBegin(MaxRuns) \/ RunPreflight(MaxRuns)
RunSys == RunDirectBegin(MaxSysRuns) \/ RunPreflight(MaxSysRuns)

\* the Prover's life: options that steer run_with_hal, raw input, runs
Next ==
    \/ OptSkipSeal
    \/ OptSkipVerify
    \/ OptPreflight
    \/ OptSegmentLimitPo2
    \/ OptUnknownSyscallHandler
    \/ new_with_opts
    \/ add_input_u8_slice
    \/ add_input_u32_slice
    \/ Run
    \/ ExecInsn
    \/ ExecSyscall
    \/ ExecFault
    \/ ExecReturn

Spec == Init /\ [][Next]_vars

\* host calls: options that steer on_txrx, and guests making every call
InitSys == Init /\ insecure /\ ~envPreflight

NextSys ==
    \/ OptSyscall
    \/ OptUnknownSyscallHandler
    \/ OptEnvVar
    \/ OptWriteFd
    \/ OptTraceCallback
    \/ OptPreflight
    \/ new_with_opts
    \/ RunSys
    \/ ExecSyscallSys
    \/ ExecReturn

SpecSys == InitSys /\ [][NextSys]_vars

\* trace events and host calls of a guest run on the direct path
NextTrace ==
    \/ OptSyscall
    \/ OptTraceCallback
    \/ new_with_opts
    \/ RunDirectBegin(MaxSysRuns)
    \/ ExecTrace
    \/ ExecSyscallSys
    \/ ExecReturn

SpecTrace == InitSys /\ [][NextTrace]_vars

(***************************************************************************)
(* Two Provers side by side.  A memory image lives in an                    *)
(* Rc<RefCell<MemoryImage>> cell; heap is the sequence of cells allocated,  *)
(* each with the guest state it holds and whether the caller holds a handle *)
(* to it.  A run is taken whole, on the direct path.                        *)
(***************************************************************************)
Cell(v, u) == [val |-> v, user |-> u]

\* Prover::new_with_opts (and Prover::new): the image is loaded into a cell
\* of its own, Rc::new(RefCell::new(MemoryImage::new(..)))
Two_new_with_opts(p) ==
    /\ ~provers[p].built
    /\ Len(heap) < MaxImages
    /\ heap' = Append(heap, Cell(EntryPc, FALSE))
    /\ provers' = [provers EXCEPT ![p] =
                       [NoProver EXCEPT !.built = TRUE, !.image = Len(heap) + 1,
                                        !.pc = EntryPc]]
    /\ UNCHANGED << proverVars, commonVars >>

\* Prover::from_image(image, pc, opts): image is a handle the caller passes
\* in, to a cell made for this call or to one the caller already holds
Two_from_image(p) ==
    \E r \in 1..MaxImages :
        /\ ~provers[p].built
        /\ r <= Len(heap) + 1
        /\ r <= Len(heap) => heap[r].user
        /\ heap' = IF r = Len(heap) + 1
                   THEN Append(heap, Cell(EntryPc, TRUE))
                   ELSE heap
        /\ provers' = [provers EXCEPT ![p] =
                           [NoProver EXCEPT !.built = TRUE, !.image = r,
                                            !.pc = EntryPc]]
        /\ UNCHANGED << proverVars, commonVars >>

\* run_with_hal of Prover p (lines 628-724, direct path): the executor is
\* given Rc::clone(&self.image) and self.pc, runs n cycles on the cell and
\* returns the pc reached; wr is whether the guest wrote a journal byte
Two_run(p) ==
    \E n \in 1..GuestLen, wr \in BOOLEAN :
        LET me == provers[p]
            endPc == me.pc + n
        IN
        /\ me.built
        /\ me.runs < MaxTwoRuns
        /\ endPc <= GuestLen
        /\ heap' = [heap EXCEPT ![me.image].val = endPc]
        /\ provers' = [provers EXCEPT ![p] =
                           [me EXCEPT !.pc = endPc,
                                      !.runs = @ + 1,
                                      !.opts_finalized = TRUE,
                                      !.receipt = IF wr THEN << 1 >> ELSE << >>]]
        /\ UNCHANGED << proverVars, commonVars >>

InitTwo == Init /\ ~envPreflight /\ ~insecure /\ opts = without_defaults

NextTwo ==
    \/ \E p \in ProverIds : Two_new_with_opts(p)
    \/ \E p \in ProverIds : Two_from_image(p)
    \/ \E p \in ProverIds : Two_run(p)

SpecTwo == InitTwo /\ [][NextTwo]_vars

(***************************************************************************)
(* risc0-common: MetaData.  The map is built with MetaData::from and edited *)
(* through its public field; the caller builds a slice of key-value pairs   *)
(* and calls valid and compatible.                                          *)
(***************************************************************************)
TEST_KEY == "TEST_KEY"
Keys == {ZKVM_PLATFORM_VER, ZKVM_CIRCUIT_VER, ZKVM_PROVER_HASH, TEST_KEY}
Vals == {CARGO_PKG_VERSION, ZKVM_HASH_SHA256}

\* MetaData::from(hash)
CallMetaDataFrom ==
    \E h \in Hashes :
        /\ metadata' = MetaData_from(h)
        /\ ret' = NoRet
        /\ UNCHANGED << proverVars, heap, provers, values, envelope >>

\* metadata.0.insert(k, v)
MetaInsert ==
    \E k \in Keys, v \in Vals :
        /\ metadata' = MapInsert(metadata, k, v)
        /\ ret' = NoRet
        /\ UNCHANGED << proverVars, heap, provers, values, envelope >>

\* metadata.0.remove(k)
MetaRemove ==
    \E k \in DOMAIN metadata :
        /\ metadata' = MapRemove(metadata, k)
        /\ ret' = NoRet
        /\ UNCHANGED << proverVars, heap, provers, values, envelope >>

\* the caller adds a pair to the slice it will pass to compatible
ValuesPush ==
    \E k \in Keys, v \in Vals :
        /\ Len(values) < MaxValues
        /\ values' = Append(values, << k, v >>)
        /\ ret' = NoRet
        /\ UNCHANGED << proverVars, heap, provers, metadata, envelope >>

\* metadata.valid()
CallValid ==
    /\ ret' = [Ret("valid", "Ok", "", "", 0, 0) EXCEPT !.flag = valid(metadata)]
    /\ UNCHANGED << proverVars, heap, provers, metadata, values, envelope >>

\* metadata.compatible(&values)
CallCompatible ==
    /\ ret' = [Ret("compatible", "Ok", "", "", 0, 0)
                   EXCEPT !.flag = compatible(metadata, values)]
    /\ UNCHANGED << proverVars, heap, provers, metadata, values, envelope >>

InitCommon == Init /\ ~envPreflight /\ ~insecure /\ opts = without_defaults

NextMeta ==
    \/ CallMetaDataFrom
    \/ MetaInsert
    \/ MetaRemove
    \/ ValuesPush
    \/ CallValid
    \/ CallCompatible

SpecMeta == InitCommon /\ [][NextMeta]_vars

(***************************************************************************)
(* risc0-common: parsing hash identifiers and the Envelope conversions.     *)
(***************************************************************************)
HashNames == {ZKVM_HASH_SHA256, ZKVM_HASH_POSEIDON, "SHA256", "blake2b", ""}
Bytes == {7}
RECURSIVE SeqsUpTo(_)
SeqsUpTo(n) ==
    IF n = 0 THEN {<< >>}
    ELSE LET shorter == SeqsUpTo(n - 1)
         IN shorter \cup {Append(q, b) : q \in shorter, b \in Bytes}

\* h.to_string() parsed back with Hashes::from_str
CallHashesFromStr ==
    \E h \in Hashes :
        LET s == Hashes_to_string(h)
            res == Hashes_from_str(s)
        IN /\ ret' = [Ret("Hashes::from_str", res.kind, res.msg, s, 0, 0)
                          EXCEPT !.val = res.val, !.of = h]
           /\ UNCHANGED << proverVars, heap, provers, metadata, values,
                           envelope >>

\* s.parse::<MetaData>()
CallMetaDataFromStr ==
    \E s \in HashNames :
        LET res == MetaData_from_str(s)
        IN /\ metadata' = res.md
           /\ ret' = Ret("MetaData::from_str", res.kind, res.msg, s, 0, 0)
           /\ UNCHANGED << proverVars, heap, provers, values, envelope >>

\* Envelope::try_from_hash(value, hash)
CallTryFromHash ==
    \E t \in BodyType, d \in SeqsUpTo(MaxBody), hash \in HashNames :
        LET res == try_from_hash(Value(t, d), hash)
        IN /\ envelope' = res.envelope
           /\ ret' = Ret("try_from_hash", res.kind, res.msg, hash, t, 0)
           /\ UNCHANGED << proverVars, heap, provers, metadata, values >>

\* an Envelope read with its derived Deserialize: any metadata, tag and body
EnvelopeDeserialize ==
    \E md \in {EmptyMap, MetaData_from("Sha256")}, bt \in BodyType,
       body \in SeqsUpTo(MaxBody + 1) :
        /\ envelope' = Envelope(md, bt, body)
        /\ ret' = NoRet
        /\ UNCHANGED << proverVars, heap, provers, metadata, values >>

\* T::try_from(envelope): the Envelope is moved into the call
CallTryFrom ==
    \E t \in BodyType :
        LET res == try_from(t, envelope)
        IN /\ envelope.some
           /\ envelope' = NoEnvelope
           /\ ret' = [Ret("try_from", res.kind, res.msg, "", t,
                          envelope.body_type)
                          EXCEPT !.data = res.data, !.decoded = res.decoded]
           /\ UNCHANGED << proverVars, heap, provers, metadata, values >>

NextEnv ==
    \/ CallHashesFromStr
    \/ CallMetaDataFromStr
    \/ CallTryFromHash
    \/ EnvelopeDeserialize
    \/ CallTryFrom

SpecEnv == InitCommon /\ [][NextEnv]_vars

(***************************************************************************)
(* Properties.                                                              *)
(***************************************************************************)
\* the configuration the runs work with: the one moved into the preflight
\* ExecState when there is one, else ProverImpl.opts
FinalizedOpts == IF preflight_segments.some THEN preflight_segments.opts ELSE opts

LateInputFailure ==
    result.kind = "Panic" /\ result.why = "Input may not be added"

\* C1: a run invocation fails the late-input assertion only if bytes were
\* added with add_input_* after the first run invocation; with none added
\* after it, no run fails that check, whether or not input was added before
\* the first run.
C1_NoLateInputFailure == LateInputFailure => hist.lateAdd

C1_Witness ==
    /\ runs = 2
    /\ stage = "idle"
    /\ result.kind = "Ok"
    /\ hist.merged # << >>
    /\ ~hist.lateAdd

\* C2: with bytes in the raw input buffer after a run invocation has
\* occurred, the next run invocation panics on its assertion: no guest
\* instruction executes (the executor is not entered, nothing is written to
\* the journal, pc, image, cycles and exit_code stay) and no Receipt returns.
C2_LateInputRejected ==
    [][ (stage = "idle" /\ runs >= 1 /\ input # << >> /\ runs' = runs + 1)
        => /\ result'.kind = "Panic"
           /\ result'.why = "Input may not be added"
           /\ stage' = "idle"
           /\ UNCHANGED << journal, proverState, preflight_segments >>
           /\ hist'.written = hist.written ]_vars

C2_Witness == LateInputFailure /\ hist.lateAdd /\ runs = 2

\* C3: the configuration is finalized exactly once, on the first run
\* invocation: the buffered raw input becomes the standard input reader and
\* the posix read / read-available / write and getenv handlers are installed
\* then; no later run invocation changes the configuration again.
C3_FinalizedOnce ==
    /\ [] ( /\ runs = 0 => (hist.finalizeCount = 0 /\ ~opts_finalized)
            /\ runs >= 1 =>
                 /\ hist.finalizeCount = 1
                 /\ opts_finalized
                 /\ FinalizedOpts.finalized
                 /\ \A n \in {SYS_READ, SYS_READ_AVAIL, SYS_WRITE} :
                      /\ n \in DOMAIN FinalizedOpts.syscall_handlers
                      /\ FinalizedOpts.syscall_handlers[n].kind = "PosixIo"
                      /\ hist.merged # << >> =>
                           FinalizedOpts.syscall_handlers[n].io.read_fds[STDIN]
                             = Reader("cursor", hist.merged)
                 /\ SYS_GETENV \in DOMAIN FinalizedOpts.syscall_handlers
                 /\ FinalizedOpts.syscall_handlers[SYS_GETENV]
                      = Getenv(hist.configured.env_vars) )
    /\ [][ opts_finalized =>
             /\ opts' = opts
             /\ preflight_segments'.opts = preflight_segments.opts
             /\ hist'.finalizeCount = hist.finalizeCount ]_vars

C3_Witness ==
    /\ runs = 2
    /\ result.kind = "Ok"
    /\ hist.merged # << >>
    /\ hist.finalizeCount = 1


\* the guest call dispatched last, the handlers that ran for it, and the
\* outcome handed back to the executor
Dispatched == lastCall # << >> /\ lastCall[1].invoked[1][1] # "trace"
Traced == lastCall # << >> /\ lastCall[1].invoked[1][1] = "trace"
TheCall == lastCall[1].call
Invoked == lastCall[1].invoked
TheOutcome == Invoked[Len(Invoked)][3]

\* the secure-random built-in is recognised with or without the platform prefix
IsRandomName(n) == n = SYS_RANDOM \/ n = Name(0, "SYS_RANDOM")

\* C4: for every guest call dispatched by on_txrx exactly one handler runs:
\* the one registered under the exact name if there is one; otherwise the
\* secure-random built-in if the name is SYS_RANDOM with or without the
\* platform prefix; otherwise the unknown-syscall fallback.
C4_OneHandlerByPriority ==
    Dispatched =>
      /\ Len(Invoked) = 1
      /\ IF TheCall.name \in DOMAIN opts.syscall_handlers
         THEN /\ Invoked[1][1] = "registered"
              /\ Invoked[1][2] = opts.syscall_handlers[TheCall.name].kind
         ELSE IF IsRandomName(TheCall.name)
              THEN Invoked[1][1] = "builtin"
              ELSE /\ Invoked[1][1] = "fallback"
                   /\ Invoked[1][2] = opts.unknown_syscall_handler.kind

C4_Witness ==
    /\ Dispatched
    /\ TheCall.name = Name(0, "SYS_RANDOM")
    /\ Invoked[1][1] = "registered"
    /\ Invoked[1][2] = "User"

\* C5 (as claimed): a handler the user registered for a name with
\* with_syscall before the first run is the one handler that runs for each
\* guest call of that name, also for the names of the built-ins.
C5_UserHandlerInvoked ==
    (/\ Dispatched
     /\ TheCall.name \in DOMAIN hist.configured.syscall_handlers
     /\ hist.configured.syscall_handlers[TheCall.name].kind = "User")
    => (Len(Invoked) = 1 /\ Invoked[1][2] = "User")

\* C6 (as claimed): a guest call of a name with no registered handler that
\* is no built-in never returns success to the guest.
C6_UnknownNeverSucceeds ==
    (/\ Dispatched
     /\ TheCall.name \notin DOMAIN opts.syscall_handlers
     /\ ~IsRandomName(TheCall.name))
    => TheOutcome.ret # "Ok"

\* C6 (amended): in a configuration built without
\* with_unknown_syscall_handler, a guest call of a name with no registered
\* handler that is not the secure-random built-in panics in the fallback:
\* the run ends there and returns nothing.
C6_DefaultFallbackPanics ==
    (/\ Dispatched
     /\ TheCall.name \notin DOMAIN opts.syscall_handlers
     /\ ~IsRandomName(TheCall.name)
     /\ hist.configured.unknown_syscall_handler = UnknownSyscall)
    => /\ TheOutcome.ret = "Panic"
       /\ stage = "idle"
       /\ result.kind = "Panic"

C6_Witness ==
    /\ Dispatched
    /\ TheCall.name = Name(0, "CUSTOM")
    /\ hist.configured.unknown_syscall_handler = UnknownSyscall
    /\ result.kind = "Panic"

C8_SkipSealEmptySeal ==
    (hist.configured.skip_seal /\ result.kind = "Ok") => result.seal = << >>

\* C9 (as claimed): unless skip-verify is configured, a Receipt is returned
\* only after the self-check ran and succeeded.
C9_AlwaysSelfChecked ==
    (~hist.configured.skip_verify /\ result.kind = "Ok") => result.verify = "ok"

\* C9 (amended): on the direct path, with skip-verify not configured and
\* skip-seal neither configured nor forced by insecure_skip_seal, a Receipt
\* is returned only after the self-check ran and succeeded, and a failed
\* self-check makes the run return an error and no Receipt.
C9_SelfCheckedWhenSealed ==
    /\ (/\ result.path = "direct"
        /\ result.kind = "Ok"
        /\ ~hist.configured.skip_verify
        /\ ~hist.configured.skip_seal
        /\ ~insecure)
       => (result.verify = "ok" /\ result.seal # << >>)
    /\ result.verify = "failed" => result.kind = "Err"

C9_Witness ==
    /\ result.path = "direct"
    /\ result.kind = "Ok"
    /\ result.verify = "ok"
    /\ ~hist.configured.skip_verify
    /\ runs = 2

\* C10 (as claimed): the pc and image root a run invocation starts from are
\* the pc and image root that the run invocation before it, which returned
\* a Receipt, ended its segment with.
C10_ContinuityChain ==
    (hist.started /\ hist.linked)
    => (hist.startPc = hist.prevPc /\ hist.startRoot = hist.prevRoot)

\* C11 (as claimed): once a run invocation has returned a Receipt with exit
\* condition Halted, no later run invocation executes a guest instruction
\* or returns a further Receipt.
C11_HaltedIsTerminal ==
    (hist.haltedAt > 0 /\ runs > hist.haltedAt)
    => (frame.xcycles = 0 /\ result.kind # "Ok")

\* C12: a run invocation on the direct path invokes the executor once, from
\* the Prover's current pc and image, and its Receipt is that of the one
\* segment this invocation ran; a successful run invocation on the
\* preflight path draws one element from the segment sequence, which is
\* created on the first run invocation and is the same sequence, continued
\* where it stood, on every later one.
C12_OneSegmentPerRun ==
    [][ /\ (runs' = runs + 1 /\ stage' = "exec")
           => /\ stage = "idle"
              /\ frame'.xpc = pc
              /\ frame'.image_id = get_root(image)
              /\ frame'.xcycles = 0
        /\ stage = "exec" => runs' = runs
        /\ (stage = "exec" /\ stage' = "idle" /\ result'.kind = "Ok")
           => /\ hist'.startPc = hist.startPc
              /\ hist'.endPc = frame.xpc
              /\ pc' = frame.xpc
        /\ (runs' = runs + 1 /\ result'.kind = "Ok" /\ result'.path = "preflight")
           => /\ preflight_segments'.some
              /\ IF preflight_segments.some
                 THEN /\ hist'.startPc = preflight_segments.pc
                      /\ preflight_segments'.opts = preflight_segments.opts
                 ELSE /\ runs = 0
                      /\ hist'.startPc = pc
              /\ hist'.endPc = preflight_segments'.pc
              /\ hist'.endPc > hist'.startPc ]_vars

C12_Witness ==
    /\ runs = 2
    /\ result.kind = "Ok"
    /\ result.path = "preflight"
    /\ hist.startPc = 1
    /\ preflight_segments.pc = 2

\* C13 (as claimed): after every run invocation that returned a Receipt,
\* Prover.exit_code is the exit condition code of the segment the
\* invocation produced, on the direct and on the preflight path.
C13_ExitCodeOfSegment ==
    (stage = "idle" /\ result.kind = "Ok") => exit_code = result.code

\* C14 (as claimed): after every run invocation that returned a Receipt,
\* Prover.cycles is the sum of the cycles of all segments run so far.
C14_CumulativeCycles ==
    (stage = "idle" /\ result.kind = "Ok") => cycles = hist.total

\* b continues a: a is the front of b
IsPrefix(a, b) == Len(a) <= Len(b) /\ SubSeq(b, 1, Len(a)) = a

\* the bytes a step adds to the stream of journal bytes the guest has written
NewlyWritten == SubSeq(hist'.written, Len(hist.written) + 1, Len(hist'.written))

\* C15: the bytes of every write the guest makes to the journal descriptor
\* and sees succeed go to the Prover's Journal buffer, at its end, and to no
\* writer the user registered for that descriptor; a Receipt a run returns
\* carries the buffer's contents, which leave the buffer.
C15_JournalCaptured ==
    /\ [] ( (/\ Dispatched
             /\ TheCall.name = SYS_WRITE
             /\ TheCall.fd = JOURNAL
             /\ TheOutcome.ret = "Ok")
            => /\ Len(Invoked) = 1
               /\ TheOutcome.wfd = "journal"
               /\ Len(journal) >= Len(TheCall.data)
               /\ SubSeq(journal, Len(journal) - Len(TheCall.data) + 1,
                         Len(journal)) = TheCall.data )
    /\ [][ (result'.kind = "Ok" /\ result' # result)
           => /\ result'.journal = journal \o NewlyWritten
              /\ journal' = << >> ]_vars

C15_Witness ==
    /\ JOURNAL \in DOMAIN hist.configured.io.write_fds
    /\ hist.configured.io.write_fds[JOURNAL] = "user"
    /\ result.kind = "Ok"
    /\ result.path = "direct"
    /\ Len(result.journal) = 2

\* C16: while a segment executes, every step leaves the journal buffer as
\* it was or longer at its end, earlier bytes in place; the buffer is
\* emptied only in the step that ends the run invocation's segment, and a
\* Receipt returned then carries what the buffer held.
C16_JournalAppendOnly ==
    [][ /\ (stage = "exec" /\ stage' = "exec") => IsPrefix(journal, journal')
        /\ ~IsPrefix(journal, journal')
           => /\ journal' = << >>
              /\ stage' = "idle"
              /\ hist'.ended
              /\ hist'.total > hist.total \/ stage = "exec"
              /\ result'.kind = "Ok" => result'.journal = journal \o NewlyWritten
      ]_vars

C16_Witness ==
    /\ stage = "idle"
    /\ result.kind = "Ok"
    /\ Len(result.journal) = 2
    /\ journal = << >>
    /\ runs = 2

\* what a caller observes of Prover p: the guest state its memory image
\* holds, its pc, the journal it returned last and whether its
\* configuration was finalized
Observed(p) ==
    [image |-> heap[provers[p].image].val, pc |-> provers[p].pc,
     receipt |-> provers[p].receipt,
     opts_finalized |-> provers[p].opts_finalized]

\* C17 (as claimed): a run invocation on one Prover changes nothing another
\* Prover observes (memory image, pc, journal, configuration), however the
\* two were constructed.
C17_NoSharedState ==
    [][ \A p, q \in ProverIds :
          (p # q /\ provers[q].built /\ provers'[p].runs = provers[p].runs + 1)
          => Observed(q)' = Observed(q) ]_vars

\* C18 (as claimed): a run invocation takes the preflight path only when
\* the preflight option and skip-seal (configured, or forced by
\* insecure_skip_seal) are both true.
C18_PreflightNeedsSkipSeal ==
    result.path = "preflight"
    => (hist.configured.preflight /\ (hist.configured.skip_seal \/ insecure))

\* C19 (as claimed): the panic built-in never returns success and, for a
\* message that is valid text, fails with an error carrying the message;
\* the log built-in returns (0, 0) for every message buffer and the run
\* goes on.
C19_PanicFatalLogNonFatal ==
    (Dispatched /\ Invoked[1][2] = "DefaultSyscall")
    => /\ TheCall.name = SYS_PANIC
          => /\ TheOutcome.ret # "Ok"
             /\ from_utf8_ok(TheCall.msg)
                => (TheOutcome.err = "Guest panicked" /\ TheOutcome.msg = TheCall.msg)
       /\ TheCall.name = SYS_LOG
          => /\ TheOutcome.ret = "Ok"
             /\ TheOutcome.a0 = U32(0)
             /\ TheOutcome.a1 = U32(0)
             /\ stage = "exec"

\* C20: a with_trace_callback call on a configuration that holds no trace
\* callback installs the callback; on one that holds a callback the call
\* panics, and the callback held is not replaced.
C20_DuplicateTraceCallback ==
    [][ (/\ stage = "opts"
         /\ \/ opts'.trace_callback # opts.trace_callback
            \/ result'.why = "Duplicate trace callback")
        => IF opts.trace_callback = "none"
           THEN /\ stage' = "opts"
                /\ opts'.trace_callback \in TraceCallbacks
                /\ result' = result
           ELSE /\ stage' = "dead"
                /\ result'.kind = "Panic"
                /\ opts'.trace_callback = opts.trace_callback ]_vars

C20_Witness ==
    /\ stage = "dead"
    /\ result.why = "Duplicate trace callback"
    /\ opts.trace_callback = "cb1"

\* C21: on_trace returns the error of the registered trace callback, and Ok
\* only when no callback is registered or the callback returned Ok; on_txrx
\* returns the error of the handler it selected; either error ends the run
\* in progress with that error and no Receipt.
C21_FailuresPropagated ==
    /\ Traced
       => /\ TheOutcome.ret = "Ok"
             <=> (opts.trace_callback = "none"
                  \/ Callback_call(opts.trace_callback).ret = "Ok")
          /\ TheOutcome.ret # "Ok"
             => /\ TheOutcome = Callback_call(opts.trace_callback)
                /\ stage = "idle"
                /\ result.kind = "Err"
                /\ result.why = TheOutcome.err
          /\ TheOutcome.ret = "Ok" => stage = "exec"
    /\ (Dispatched /\ TheOutcome.ret = "Err")
       => /\ stage = "idle"
          /\ result.kind = "Err"
          /\ result.why = TheOutcome.err
          /\ Invoked[1][2] = "User" => TheOutcome.err = "user error"

C21_Witness ==
    /\ Traced
    /\ opts.trace_callback = "cb2"
    /\ result.kind = "Err"
    /\ result.why = "callback error"

\* C22 (as claimed): the segment limit handed to the executor on every run
\* invocation is the one configured at construction, and every segment a
\* run invocation produced has at most 2^segment_limit_po2 cycles for that
\* configured value.
C22_SegmentCycleBound ==
    /\ stage = "exec"
       => /\ frame.segment_limit_po2 = hist.configured.segment_limit_po2
          /\ frame.xcycles <= Pow2(hist.configured.segment_limit_po2)
    /\ (stage = "idle" /\ result.kind = "Ok")
       => hist.endPc - hist.startPc <= Pow2(hist.configured.segment_limit_po2)

\* C23: MetaData::valid returns true exactly when the map holds all three
\* required keys (platform version, circuit version, prover hash), whatever
\* other keys it holds and whatever the values.
C23_ValidIffRequiredKeys ==
    ret.op = "valid"
    => (ret.flag <=> {ZKVM_PLATFORM_VER, ZKVM_CIRCUIT_VER, ZKVM_PROVER_HASH}
                         \subseteq DOMAIN metadata)

\* valid was called on a map with an extra key from which one required key,
\* not the first of the list, was removed
C23_Witness ==
    /\ ret.op = "valid"
    /\ ~ret.flag
    /\ DOMAIN metadata = {ZKVM_PLATFORM_VER, ZKVM_PROVER_HASH, TEST_KEY}

\* C24: MetaData::compatible(values) returns true exactly when every pair
\* of values is in the map with an equal value; pairs need not cover the map.
C24_CompatibleIffAllPairsMatch ==
    ret.op = "compatible"
    => (ret.flag <=> \A i \in 1..Len(values) :
                        /\ values[i][1] \in DOMAIN metadata
                        /\ metadata[values[i][1]] = values[i][2])

\* compatible was called with a pair whose key is in the map with another
\* value, after a pair that matches
C24_Witness ==
    /\ ret.op = "compatible"
    /\ ~ret.flag
    /\ Len(values) = 2
    /\ \A i \in 1..2 : values[i][1] \in DOMAIN metadata
    /\ metadata[values[1][1]] = values[1][2]
    /\ metadata[values[2][1]] # values[2][2]

\* C25: parsing a hash identifier into MetaData succeeds only for "sha256"
\* and "poseidon" and fails with InvalidHash, carrying the string, for any
\* other; the MetaData built is valid and its prover-hash entry is the
\* identifier parsed; to_string of a Hashes parsed back gives that Hashes.
C25_ParseHashIdentifier ==
    /\ ret.op = "MetaData::from_str"
       => /\ ret.kind = "Ok" <=> ret.arg \in {"sha256", "poseidon"}
          /\ ret.kind # "Ok" => ret.kind = "InvalidHash" /\ ret.msg = ret.arg
          /\ ret.kind = "Ok"
             => /\ {ZKVM_PLATFORM_VER, ZKVM_CIRCUIT_VER, ZKVM_PROVER_HASH}
                       \subseteq DOMAIN metadata
                /\ metadata[ZKVM_PROVER_HASH] = ret.arg
    /\ ret.op = "Hashes::from_str"
       => ret.kind = "Ok" /\ ret.val = ret.of

\* "poseidon" was parsed into a MetaData
C25_Witness ==
    /\ ret.op = "MetaData::from_str"
    /\ ret.arg = "poseidon"
    /\ ret.kind = "Ok"
    /\ ZKVM_PROVER_HASH \in DOMAIN metadata

\* C26: try_from_hash on a value of type T gives an Envelope tagged T with
\* valid metadata, or fails with InvalidHash and gives no Envelope when the
\* hash identifier is not supported; converting an Envelope to T succeeds
\* only when its tag is T, and fails with InvalidDataType, naming the tag,
\* without decoding the body when the tag is another.
C26_EnvelopeConversions ==
    /\ ret.op = "try_from_hash"
       => /\ ret.kind = "Ok" <=> ret.arg \in {"sha256", "poseidon"}
          /\ ret.kind = "Ok"
             => /\ envelope.some
                /\ envelope.body_type = ret.ty
                /\ {ZKVM_PLATFORM_VER, ZKVM_CIRCUIT_VER, ZKVM_PROVER_HASH}
                       \subseteq DOMAIN envelope.metadata
          /\ ret.kind # "Ok"
             => ret.kind = "InvalidHash" /\ ret.msg = ret.arg /\ ~envelope.some
    /\ ret.op = "try_from"
       => /\ ret.kind = "Ok" => ret.tag = ret.ty
          /\ ret.tag # ret.ty
             => /\ ret.kind = "InvalidDataType"
                /\ ret.msg = BodyTypeNames[ret.tag]
                /\ ~ret.decoded

\* an Envelope tagged SessionReceipt, whose body would decode, was
\* converted to a Segment
C26_Witness ==
    /\ ret.op = "try_from"
    /\ ret.ty = 1
    /\ ret.tag = 5
    /\ ret.kind = "InvalidDataType"
    /\ ret.msg = "SessionReceipt"

\* C27: when a direct-path run self-checks its Receipt (neither skip-seal
\* nor skip-verify), the check is made against the image root captured
\* before the segment executed (the root of the program's image on the first
\* run invocation), whatever the segment made of the image.
C27_VerifiedAgainstStartRoot ==
    (stage = "idle" /\ result.path = "direct" /\ result.verify # "none")
    => /\ result.against = hist.startRoot
       /\ runs = 1 => result.against = get_root(EntryPc)

\* the second run of a Prover was self-checked, against the root the first
\* run left, which is neither the program's nor the one the second run left
C27_Witness ==
    /\ stage = "idle"
    /\ runs = 2
    /\ result.kind = "Ok"
    /\ result.path = "direct"
    /\ result.verify = "ok"
    /\ result.against = hist.startRoot
    /\ result.against # get_root(EntryPc)
    /\ result.against # get_root(image)

\* C28: a direct-path run that generates a seal commits the code group,
\* commits the data group, accumulates, commits the accumulation group and
\* then finalizes, in that order and once the executor has returned; a run
\* with skip-seal in effect takes none of these steps.
C28_ProveStepOrder ==
    /\ stage = "exec" => result.steps = << >>
    /\ (stage = "idle" /\ result.path = "direct"
                       /\ (result.kind = "Ok" \/ result.verify = "failed"))
       => IF opts.skip_seal \/ insecure
          THEN result.steps = << >> /\ result.seal = << >>
          ELSE result.steps = << "commit code", "commit data", "accumulate",
                                 "commit accum", "finalize" >>

\* a direct-path run returned a Receipt with a seal
C28_Witness ==
    /\ stage = "idle"
    /\ result.kind = "Ok"
    /\ result.path = "direct"
    /\ result.seal # << >>
    /\ Len(result.steps) = 5
    /\ result.steps[5] = "finalize"

\* C29 (as claimed): on every run invocation of a Prover, in both
\* scheduling paths, run_with_hal reads the skip-seal, skip-verify,
\* preflight and segment-limit options as they were configured at
\* construction.
C29_OptionsSameOnEveryRun ==
    stage \in {"idle", "exec"}
    => /\ opts.skip_seal = hist.configured.skip_seal
       /\ opts.skip_verify = hist.configured.skip_verify
       /\ opts.preflight = hist.configured.preflight
       /\ opts.segment_limit_po2 = hist.configured.segment_limit_po2

\* C30 (as claimed): over any sequence of run invocations on one Prover,
\* failed ones included, the journals of the Receipts returned so far,
\* followed by the bytes still in the journal buffer, are the bytes the
\* guest wrote to the journal descriptor, in order; after a run that
\* returned a Receipt the buffer is empty.
C30_NoJournalByteLost ==
    /\ stage \in {"idle", "exec"} => hist.returned \o journal = hist.written
    /\ (stage = "idle" /\ result.kind = "Ok") => journal = << >>

\* C31 (as claimed): a run invocation that returns an error, whether the
\* executor failed or proving or the self-check failed after it, leaves pc,
\* cycles and exit_code as they were before the invocation.
C31_ErrorLeavesResumptionState ==
    [][ ( /\ stage \in {"idle", "exec"}
          /\ stage' = "idle"
          /\ runs' = runs + 1 \/ stage = "exec"
          /\ result'.kind # "Ok" )
        => /\ pc' = pc
           /\ cycles' = cycles
           /\ exit_code' = exit_code ]_vars

\* C32: once raw input was added after the first run invocation, the input
\* buffer is never emptied again, every later run invocation fails the
\* late-input assertion, and no new Receipt is returned.
C32_LateInputPermanent ==
    [][ hist.lateAdd
        => /\ input' # << >>
           /\ opts_finalized'
           /\ runs' # runs
              => /\ result'.kind = "Panic"
                 /\ result'.why = "Input may not be added"
                 /\ stage' = "idle"
           /\ result'.kind = "Ok" => result' = result ]_vars

\* a run invocation made after a late add has failed the assertion, the
\* buffer still holding the input
C32_Witness ==
    /\ hist.lateAdd
    /\ hist.ended
    /\ runs = 2
    /\ result.kind = "Panic"
    /\ result.why = "Input may not be added"
    /\ input # << >>

====
